---- MODULE Spec2Model ----
(***************************************************************************)
(* BookBuddy: the DBKL court watcher (kl-court-booking.py).                *)
(*                                                                         *)
(* A run scrapes the slot labels of every location and look-ahead day,     *)
(* filters them (time window, ignored courts), and process_and_notify      *)
(* diffs them against SLOT_FILE, composes a MarkdownV2 message, and, when  *)
(* the md5 of the message differs from HASH_FILE, sends it with            *)
(* send_telegram_message and rewrites both files.                          *)
(*                                                                         *)
(* Text is modelled by structure, not by characters:                       *)
(*   - a slot label "Court 3 7:00 PM to 8:00 PM" is a record               *)
(*     [court, start, end, sep]; court = NoCourt when the label carries no *)
(*     "Court n"/"Gelanggang n" token; sep is the separator the site       *)
(*     printed between the two times (" to ", " - " or "-");               *)
(*   - a line of text is a record [kind, p, lead, core, trail]: what it    *)
(*     says (kind, p) and how many characters it holds (leading            *)
(*     whitespace, body, trailing whitespace), so that len() and strip()   *)
(*     are computed with the program's real 4000 character limit.          *)
(***************************************************************************)
EXTENDS Integers, Sequences, FiniteSets, TLC

(***************************************************************************)
(* Bounds of the model                                                     *)
(***************************************************************************)
\* labels the source lists for one (location, day) in the pipeline
MaxSlotsPerDay == 1
\* labels of one (location, date) handed to process_and_notify directly
MaxComposeSlots == 2
\* lines of a text handed to send_telegram_message directly
MaxLines == 3
\* labels listed per (location, date) in the inputs of the specification of the
\* composer's layout
MaxRenderSlots == 2
\* slot keys of SLOT_FILE that are no longer listed, in the same specification
MaxRemoved == 6
MaxDispatches == 3

(***************************************************************************)
(* Program constants                                                       *)
(***************************************************************************)
MAX_MESSAGE_LENGTH == 4000
MAX_BOOKING_DAYS == 22

\* LOCATIONS, in declaration order (dict iteration order); a location's name
\* is identified with its id (the table is one-to-one).
LOCATIONS == <<15, 9, 7, 10, 11>>

\* len(LOCATIONS[id])
LocationNameLen(id) ==
    CASE id = 15 -> 15  \* "Bukit Bandaraya"
      [] id = 9  -> 7   \* "Bangsar"
      [] id = 7  -> 4   \* "TTDI"
      [] id = 10 -> 10  \* "TITIWANGSA"
      [] id = 11 -> 16  \* "Bandar Tun Razak"

\* rank of LOCATIONS[id] in Python's string order:
\* "Bandar Tun Razak" < "Bangsar" < "Bukit Bandaraya" < "TITIWANGSA" < "TTDI"
LocationNameRank(id) ==
    CASE id = 11 -> 1
      [] id = 9  -> 2
      [] id = 15 -> 3
      [] id = 10 -> 4
      [] id = 7  -> 5

\* IGNORED_COURTS[location_id], {} when the location has no entry
IGNORED_COURTS(location_id) == IF location_id = 10 THEN {5, 6} ELSE {}

NoCourt == 0              \* extract_court_number(label) is None

\* a file: <<>> when it does not exist, <<content>> when it does
Missing == <<>>
\* a file json.load cannot parse
Unparsable == <<"unparsable", "unparsable">>
File(content) == <<content>>
Content(file) == file[1]

(***************************************************************************)
(* Small helpers                                                           *)
(***************************************************************************)
Range(s) == {s[i] : i \in DOMAIN s}

Digits(n) == IF n < 10 THEN 1 ELSE IF n < 100 THEN 2 ELSE IF n < 1000 THEN 3 ELSE 4

RECURSIVE SumSeq(_)
SumSeq(s) == IF s = <<>> THEN 0 ELSE Head(s) + SumSeq(Tail(s))

RECURSIVE Flatten(_)
Flatten(ss) == IF ss = <<>> THEN <<>> ELSE Head(ss) \o Flatten(Tail(ss))

\* the elements of s without repetition, in order of first appearance
\* (the keys of a dict filled from s)
RECURSIVE Distinct(_)
Distinct(s) ==
    IF s = <<>> THEN <<>>
    ELSE LET front == Distinct(SubSeq(s, 1, Len(s) - 1))
             last  == s[Len(s)]
         IN IF last \in Range(front) THEN front ELSE Append(front, last)

\* sequences over S of length 0..n
SeqsUpTo(S, n) == UNION {[1..k -> S] : k \in 0..n}

\* Python's sorted()/list.sort() on pairs <<key, value>> with key = the pair's
\* first component, a tuple of integers compared lexicographically: stable.
RECURSIVE TupleLess(_, _)
TupleLess(a, b) ==
    IF a = <<>> THEN b # <<>>
    ELSE IF b = <<>> THEN FALSE
    ELSE IF Head(a) # Head(b) THEN Head(a) < Head(b)
    ELSE TupleLess(Tail(a), Tail(b))

RECURSIVE InsertStable(_, _)
InsertStable(sorted, x) ==
    IF sorted = <<>> THEN <<x>>
    ELSE LET last == sorted[Len(sorted)]
         IN IF TupleLess(x[1], last[1])
            THEN Append(InsertStable(SubSeq(sorted, 1, Len(sorted) - 1), x), last)
            ELSE Append(sorted, x)

RECURSIVE StableSort(_)
StableSort(s) ==
    IF s = <<>> THEN <<>>
    ELSE InsertStable(StableSort(SubSeq(s, 1, Len(s) - 1)), s[Len(s)])

SortedValues(s) == [i \in DOMAIN s |-> StableSort(s)[i][2]]

(***************************************************************************)
(* Times and labels                                                        *)
(***************************************************************************)
\* a clock time as printed, "h:mm AM/PM": [h, m, pm]
Time(h, m, pm) == [h |-> h, m |-> m, pm |-> pm]

\* dateutil parser.parse(t) for a time of the 12-hour clock (h in 1..12, the
\* only times the labels of this model print): the time of day
ParseTime(t) ==
    [hour |-> IF t.pm THEN (IF t.h < 12 THEN t.h + 12 ELSE t.h)
              ELSE (IF t.h = 12 THEN 0 ELSE t.h),
     minute |-> t.m]

\* dt.strftime("%I:%M %p").lstrip("0")
FormatTime(dt) ==
    Time(IF dt.hour % 12 = 0 THEN 12 ELSE dt.hour % 12, dt.minute, dt.hour >= 12)

\* len of a formatted time: "7:00 PM" or "10:00 PM"
TimeLen(t) == Digits(t.h) + 6

Label(court, start, end, sep) ==
    [court |-> court, start |-> start, end |-> end, sep |-> sep]

Seps == {"to", "sdash", "dash"}     \* " to ", " - ", "-"

\* extract_court_number(label)
extract_court_number(label) == label.court

\* extract_time_range(label): both separators are normalised to "-" and the
\* two times around it are returned as printed
extract_time_range(label) == <<label.start, label.end>>

\* is_slot_after_4pm with the lower bound left out of the window
is_slot_after_4pm_Exclusive(label) ==
    LET dt == ParseTime(extract_time_range(label)[1])
    IN 19 < dt.hour /\ dt.hour < 23

\* is_slot_after_4pm(label)
is_slot_after_4pm(label) ==
    LET start_time == extract_time_range(label)[1]
        dt == ParseTime(start_time)
    IN 19 <= dt.hour /\ dt.hour < 23

\* should_ignore_court with the ignore lists of all locations taken together
should_ignore_court_AnyLocation(location_id, court_number) ==
    \E l \in Range(LOCATIONS) : court_number \in IGNORED_COURTS(l)

\* should_ignore_court(location_id, court_number)
should_ignore_court(location_id, court_number) ==
    court_number \in IGNORED_COURTS(location_id)

(***************************************************************************)
(* Dates: "%d/%m/%Y" strings of January and February 2025, as [d, m]       *)
(***************************************************************************)
Date(d, m) == [d |-> d, m |-> m]

\* datetime.strptime(s, "%d/%m/%Y") as a day number (the chronological order)
DayNumber(date) == (date.m - 1) * 31 + date.d

\* the date of a day number: date.strftime("%d/%m/%Y")
DateOfDay(n) == IF n <= 31 THEN Date(n, 1) ELSE Date(n - 31, 2)

\* datetime.today() of every run of the model: 31/01/2025
Today == Date(31, 1)

(***************************************************************************)
(* Slot keys                                                               *)
(***************************************************************************)
\* f"{LOCATIONS[location_id]} - {date} - {slot}"
SlotKey(location_id, date, slot) == <<location_id, date, slot>>

\* rank of an hour as printed ("10" < "11" < "12" < "1:" < "2:" < ... < "9:")
HourTextRank(h) == IF h >= 10 THEN h - 10 ELSE h + 2

\* rank of a court token as printed ("1 " < "10" < "11" < ... < "2 "); a label
\* without a court token starts with a digit, before any "Court"
CourtTextRank(c) ==
    IF c = NoCourt THEN 0
    ELSE IF c < 10 THEN c * 100
    ELSE (c \div 10) * 100 + (c % 10) + 1

\* rank of the separator as printed: " - " < " to " < "-"
SepRank(sep) == CASE sep = "sdash" -> 0 [] sep = "to" -> 1 [] sep = "dash" -> 2

TimeTextRank(t) == <<HourTextRank(t.h), t.m, IF t.pm THEN 1 ELSE 0>>

\* the place of a slot key in Python's order of strings, as a tuple compared
\* lexicographically (courts below 100)
KeyRank(key) ==
    <<LocationNameRank(key[1]), key[2].d, key[2].m, CourtTextRank(key[3].court)>>
    \o TimeTextRank(key[3].start) \o <<SepRank(key[3].sep)>>
    \o TimeTextRank(key[3].end)

\* sorted(keys)
RECURSIVE SortedKeys(_)
SortedKeys(S) ==
    IF S = {} THEN <<>>
    ELSE LET least == CHOOSE x \in S :
                        \A y \in S : y = x \/ TupleLess(KeyRank(x), KeyRank(y))
         IN <<least>> \o SortedKeys(S \ {least})

(***************************************************************************)
(* Lines of text                                                           *)
(***************************************************************************)
\* a line: what it says (kind and the integers p) and its width in characters
\* (lead and trail: whitespace at its ends; core: the rest; a line of
\* whitespace only has core = 0 and its width in lead)
Line(kind, p, lead, core, trail) ==
    [kind |-> kind, p |-> p, lead |-> lead, core |-> core, trail |-> trail]

BlankLine == Line("blank", <<>>, 0, 0, 0)

LineLen(l) == l.lead + l.core + l.trail

\* len("\n".join(lines))
TextLen(lines) ==
    IF lines = <<>> THEN 0
    ELSE SumSeq([i \in DOMAIN lines |-> LineLen(lines[i])]) + Len(lines) - 1

Bit(b) == IF b THEN 1 ELSE 0

(***************************************************************************)
(* process_and_notify: the diff and the composer                           *)
(*                                                                         *)
(* all_location_slots, a dict of dicts of lists, is a sequence (insertion  *)
(* order) of [loc, days], days a sequence of [date, slots].                *)
(***************************************************************************)
\* current_slots (lines 227-231)
CurrentSlots(all_location_slots) ==
    UNION { UNION { { SlotKey(e.loc, day.date, day.slots[i]) : i \in DOMAIN day.slots }
                    : day \in Range(e.days) }
            : e \in Range(all_location_slots) }

\* new_slots (line 233)
NewSlots(current_slots, previous_slots) == current_slots \ previous_slots

\* removed_slots without the subtraction
RemovedSlots_Unsubtracted(current_slots, previous_slots) == previous_slots

\* removed_slots (line 234)
RemovedSlots(current_slots, previous_slots) == previous_slots \ current_slots

\* total_slots (line 242)
TotalSlots(all_location_slots) ==
    SumSeq(Flatten([i \in DOMAIN all_location_slots |->
        [j \in DOMAIN all_location_slots[i].days |->
            Len(all_location_slots[i].days[j].slots)]]))

\* the header line and the empty line its "\n" adds (lines 243-246)
HeaderLines(total_slots, new_slots) ==
    LET n == Cardinality(new_slots)
    IN << Line("header", <<total_slots, n>>, 0,
               29 + Digits(total_slots) + 6
                  + (IF new_slots # {} THEN 6 + Digits(n) + 4 ELSE 0), 0),
          BlankLine >>

\* time_only (line 265): the label without its court token
TimeOnly(slot) == [start |-> slot.start, end |-> slot.end, sep |-> slot.sep]

\* the courts of a time group left in the order they were listed
SortedCourts_Unsorted(courts) == courts

\* sorted(courts, key=court number, None as 999): the pairs (court_num, is_new)
\* of one time group, in sorted order (line 294)
SortedCourts(courts) ==
    SortedValues([i \in DOMAIN courts |->
        << <<IF courts[i][1] # NoCourt THEN courts[i][1] ELSE 999>>, courts[i] >>])

\* court_strings (lines 293-299): the numbered courts only
CourtStrings(courts) ==
    SelectSeq(SortedCourts(courts), LAMBDA c : c[1] # NoCourt)

\* the line of one time group (lines 291-314)
TimeLine(time_slot, courts) ==
    LET cs        == CourtStrings(courts)
        start_fmt == FormatTime(ParseTime(extract_time_range(time_slot)[1]))
        end_fmt   == FormatTime(ParseTime(extract_time_range(time_slot)[2]))
        text_len  == SumSeq([i \in DOMAIN cs |-> Digits(cs[i][1]) + Bit(cs[i][2])])
                     + (IF cs = <<>> THEN 0 ELSE 2 * (Len(cs) - 1))
    IN Line("time",
            <<start_fmt.h, start_fmt.m, Bit(start_fmt.pm),
              end_fmt.h, end_fmt.m, Bit(end_fmt.pm)>>
              \o Flatten([i \in DOMAIN cs |-> <<cs[i][1], Bit(cs[i][2])>>]),
            0,
            \* "• " start " \- " end " →" and, before a non-empty court list, " "
            2 + TimeLen(start_fmt) + 4 + TimeLen(end_fmt) + 2
              + (IF cs = <<>> THEN 0 ELSE 1 + text_len),
            IF cs = <<>> THEN 1 ELSE 0)

\* the lines of one date of one location (lines 252-314)
DateLines(location_id, day, new_slots) ==
    LET slots       == day.slots
        time_keys   == Distinct([i \in DOMAIN slots |-> TimeOnly(slots[i])])
        time_groups(t) ==
            LET idx == SelectSeq([i \in DOMAIN slots |-> i],
                                 LAMBDA i : TimeOnly(slots[i]) = t)
            IN [k \in DOMAIN idx |->
                  << extract_court_number(slots[idx[k]]),
                     SlotKey(location_id, day.date, slots[idx[k]]) \in new_slots >>]
        sorted_slots ==
            SortedValues([i \in DOMAIN time_keys |->
                << <<ParseTime(extract_time_range(time_keys[i])[1]).hour,
                     ParseTime(extract_time_range(time_keys[i])[1]).minute>>,
                   time_keys[i] >>])
    IN << BlankLine, Line("date", <<day.date.d, day.date.m>>, 0, 11, 0) >>
       \o [i \in DOMAIN sorted_slots |->
              TimeLine(sorted_slots[i], time_groups(sorted_slots[i]))]

\* the lines of one location (lines 248-316)
LocationLines(e, new_slots) ==
    LET days == SortedValues([i \in DOMAIN e.days |->
                    << <<DayNumber(e.days[i].date)>>, e.days[i] >>])
    IN << Line("location", <<e.loc>>, 0, LocationNameLen(e.loc) + 2, 0) >>
       \o Flatten([i \in DOMAIN days |-> DateLines(e.loc, days[i], new_slots)])
       \o << BlankLine >>

\* one struck-through removed slot (lines 322-331): the location cut to four
\* letters, the date to DD/MM, " to " replaced by "-", then escaped
RemovedLine(key) ==
    LET slot       == key[3]
        slot_short == IF slot.sep = "to" THEN "dash" ELSE slot.sep
        court_len  == IF slot.court = NoCourt THEN 0 ELSE 6 + Digits(slot.court) + 1
        sep_len    == IF slot_short = "dash" THEN 2 ELSE 4
    IN Line("removed",
            <<key[1], key[2].d, key[2].m, slot.court,
              slot.start.h, slot.start.m, Bit(slot.start.pm), SepRank(slot_short),
              slot.end.h, slot.end.m, Bit(slot.end.pm)>>,
            0,
            1 + 4 + 1 + 5 + 1 + court_len + TimeLen(slot.start) + sep_len
              + TimeLen(slot.end) + 1,
            0)

\* the removed section without its limit
RemovedLines_NoLimit(removed_slots) ==
    IF removed_slots # {}
    THEN LET shown == SortedKeys(removed_slots)
         IN << Line("removed_header", <<>>, 0, 13, 0) >>
            \o [i \in DOMAIN shown |-> RemovedLine(shown[i])]
            \o << BlankLine >>
    ELSE <<>>

\* the removed section (lines 318-332)
RemovedLines(removed_slots) ==
    IF removed_slots # {} /\ Cardinality(removed_slots) <= 5
    THEN LET shown == SortedKeys(removed_slots)
         IN << Line("removed_header", <<>>, 0, 13, 0) >>
            \o [i \in DOMAIN shown |-> RemovedLine(shown[i])]
            \o << BlankLine >>
    ELSE <<>>

\* message (lines 238-335), as the lines of "\n".join(message_lines)
ComposeMessage(all_location_slots, new_slots, removed_slots) ==
    HeaderLines(TotalSlots(all_location_slots), new_slots)
    \o Flatten([i \in DOMAIN all_location_slots |->
                   LocationLines(all_location_slots[i], new_slots)])
    \o RemovedLines(removed_slots)
    \o << Line("link", <<>>, 0, 38, 0) >>

\* hashlib.md5(message.encode()).hexdigest(): a digest that tells any two
\* messages of the model apart, written as the message it digests
MessageHash(message) == [md5 |-> message]

(***************************************************************************)
(* send_telegram_message: what it posts                                    *)
(***************************************************************************)
\* a payload: the "Part n" header it carries (part = 0: none) and its lines
Payload(part, lines) == [part |-> part, lines |-> lines]

\* len(f"📱 *Part {chunk_count}*\n\n")
HeaderLen(part) == IF part > 0 THEN 11 + Digits(part) ELSE 0

\* len(payload["text"])
PayloadLen(payload) == HeaderLen(payload.part) + TextLen(payload.lines)

\* len(current_chunk): every line of the chunk is followed by "\n"
ChunkLen(current_chunk) ==
    SumSeq([i \in DOMAIN current_chunk |-> LineLen(current_chunk[i]) + 1])

\* bool(current_chunk.strip())
NonBlank(current_chunk) == \E i \in DOMAIN current_chunk : current_chunk[i].core > 0

\* current_chunk.strip() of a chunk that is not blank: the whitespace before
\* its first and after its last character goes, whole lines included
Strip(current_chunk) ==
    LET inked == {i \in DOMAIN current_chunk : current_chunk[i].core > 0}
        first == CHOOSE i \in inked : \A j \in inked : i <= j
        last  == CHOOSE i \in inked : \A j \in inked : j <= i
        kept  == SubSeq(current_chunk, first, last)
    IN [i \in DOMAIN kept |->
          [kept[i] EXCEPT !.lead  = IF i = 1 THEN 0 ELSE @,
                          !.trail = IF i = Len(kept) THEN 0 ELSE @]]

\* header + current_chunk.strip() (lines 81-85 and 99-103)
Chunk(chunk_count, current_chunk) ==
    Payload(IF chunk_count > 1 THEN chunk_count ELSE 0, Strip(current_chunk))

\* the loop with a new chunk started empty: the line that did not fit is lost
RECURSIVE ChunkLoop_DropsLine(_, _, _, _)
ChunkLoop_DropsLine(lines, current_chunk, chunk_count, sent) ==
    IF lines = <<>>
    THEN IF NonBlank(current_chunk)
         THEN Append(sent, Chunk(chunk_count, current_chunk))
         ELSE sent
    ELSE LET line == Head(lines)
         IN IF ChunkLen(current_chunk) + LineLen(line) + 1 > MAX_MESSAGE_LENGTH
            THEN IF NonBlank(current_chunk)
                 THEN ChunkLoop_DropsLine(Tail(lines), <<>>, chunk_count + 1,
                                          Append(sent, Chunk(chunk_count, current_chunk)))
                 ELSE ChunkLoop_DropsLine(Tail(lines), <<>>, chunk_count, sent)
            ELSE ChunkLoop_DropsLine(Tail(lines), Append(current_chunk, line),
                                     chunk_count, sent)

\* the loop over the lines (lines 76-95) and the remaining chunk (lines 97-106):
\* the payloads posted, in order
RECURSIVE ChunkLoop(_, _, _, _)
ChunkLoop(lines, current_chunk, chunk_count, sent) ==
    IF lines = <<>>
    THEN IF NonBlank(current_chunk)
         THEN Append(sent, Chunk(chunk_count, current_chunk))
         ELSE sent
    ELSE LET line == Head(lines)
         IN IF ChunkLen(current_chunk) + LineLen(line) + 1 > MAX_MESSAGE_LENGTH
            THEN IF NonBlank(current_chunk)
                 THEN ChunkLoop(Tail(lines), <<line>>, chunk_count + 1,
                                Append(sent, Chunk(chunk_count, current_chunk)))
                 ELSE ChunkLoop(Tail(lines), <<line>>, chunk_count, sent)
            ELSE ChunkLoop(Tail(lines), Append(current_chunk, line), chunk_count, sent)

\* send_telegram_message(text): the payloads it posts when no post raises
Payloads(text) ==
    IF TextLen(text) <= MAX_MESSAGE_LENGTH
    THEN << Payload(0, text) >>
    ELSE ChunkLoop(text, <<>>, 1, <<>>)

(***************************************************************************)
(* run: fetching and filtering                                             *)
(***************************************************************************)
\* the locations and the look-ahead days (loop index i) whose page loads and
\* lists slots; every other page fails to load (safe_goto) or lists nothing
SourceLocs == {9, 10}
SourceDays == {0}

SourceCells == SourceLocs \X SourceDays

\* the slot 7:00 PM - 8:00 PM of court 1, in two of the site's spellings
A_to   == Label(1, Time(7, 0, TRUE), Time(8, 0, TRUE), "to")
A_dash == Label(1, Time(7, 0, TRUE), Time(8, 0, TRUE), "dash")
\* a slot before the window, a slot of a court ignored at location 10, and a
\* slot of court 2
Early  == Label(1, Time(6, 0, TRUE), Time(7, 0, TRUE), "to")
Five   == Label(5, Time(7, 0, TRUE), Time(8, 0, TRUE), "to")
B_to   == Label(2, Time(8, 0, TRUE), Time(9, 0, TRUE), "to")

\* what the site can list at a location
SourceLabels(location_id) ==
    IF location_id = 10 THEN {A_to, A_dash, Early, Five} ELSE {B_to}

\* every output of the Slot Source: the labels listed per (location, day)
SourceOutputs ==
    { f \in [SourceCells -> SeqsUpTo(UNION {SourceLabels(l) : l \in SourceLocs},
                                      MaxSlotsPerDay)] :
        \A c \in SourceCells : Range(f[c]) \subseteq SourceLabels(c[1]) }

\* filtered (lines 409-425)
Filtered(location_id, day_slots) ==
    SelectSeq(day_slots,
              LAMBDA slot :
                 /\ is_slot_after_4pm(slot)
                 /\ ~ ( extract_court_number(slot) # NoCourt
                        /\ should_ignore_court(location_id, extract_court_number(slot)) ))

\* display_date of loop index i at a location (lines 394-399)
DisplayDate(location_id, i) ==
    DateOfDay(DayNumber(Today) + i + (IF location_id = 10 THEN -1 ELSE 0))

\* location_slots of one location (lines 391-428)
LocationSlots(src, location_id) ==
    LET days == SelectSeq([k \in 1..MAX_BOOKING_DAYS |-> k - 1],
                          LAMBDA i : /\ <<location_id, i>> \in SourceCells
                                     /\ Filtered(location_id, src[<<location_id, i>>]) # <<>>)
    IN [k \in DOMAIN days |->
          [date  |-> DisplayDate(location_id, days[k]),
           slots |-> Filtered(location_id, src[<<location_id, days[k]>>])]]

\* all_location_slots at line 439
AllLocationSlots(src) ==
    LET locs == SelectSeq(LOCATIONS, LAMBDA l : LocationSlots(src, l) # <<>>)
    IN [k \in DOMAIN locs |-> [loc |-> locs[k], days |-> LocationSlots(src, locs[k])]]

(***************************************************************************)
(* pj-court-booking.py: what it fetches, composes and posts                *)
(***************************************************************************)
pj_max_length == 4000
days_to_check == 30

PjActivities == << "Tennis", "Badminton" >>

ACTIVITY_THREAD_IDS(activity) == IF activity = "Tennis" THEN 32 ELSE 34

\* SPORT_TYPES[activity]: the locations, in the order configured
SPORT_TYPES(activity) ==
    IF activity = "Tennis"
    THEN << "Kelana Jaya", "SS21", "SS3", "BU", "Astaka", "SS2" >>
    ELSE << "SS21", "BU11", "BU" >>

PjNameLen(name) ==
    CASE name = "Kelana Jaya" -> 11
      [] name = "Astaka" -> 6
      [] name = "Tennis" -> 6
      [] name = "Badminton" -> 9
      [] name \in {"SS21", "BU11"} -> 4
      [] name \in {"SS3", "SS2"} -> 3
      [] name = "BU" -> 2

\* a slot as the API lists it: NAME "Court <court>", STARTTIME "<start>:00",
\* ENDTIME "<end>:00", ISBOOKED
PjSlot(court, start, end, booked) ==
    [court |-> court, start |-> start, end |-> end, booked |-> booked]

\* the pages (activity, location, day) that list slots; every other lists none
PjCells ==
    { << "Tennis", "SS21", 0 >>, << "Tennis", "SS3", 0 >>, << "Badminton", "BU", 0 >> }

PjLabels(cell) ==
    IF cell = << "Tennis", "SS21", 0 >>
    THEN { PjSlot(1, 19, 20, 0), PjSlot(2, 19, 20, 0), PjSlot(1, 18, 19, 0),
           PjSlot(1, 19, 20, 1) }
    ELSE IF cell = << "Tennis", "SS3", 0 >>
    THEN { PjSlot(1, 20, 21, 0) }
    ELSE { PjSlot(4, 23, 0, 0) }

PjSourceOutputs ==
    { f \in [PjCells -> SeqsUpTo(UNION {PjLabels(c) : c \in PjCells}, MaxSlotsPerDay)] :
        \A c \in PjCells : Range(f[c]) \subseteq PjLabels(c) }

\* fetch_slots(location, config, date), lines 46-77, for day i
fetch_slots(src, activity, location, i) ==
    LET raw  == IF << activity, location, i >> \in PjCells
                THEN src[<< activity, location, i >>] ELSE <<>>
        kept == SelectSeq(raw, LAMBDA slot : slot.booked = 0 /\ slot.start >= 19)
    IN [k \in DOMAIN kept |->
          [date     |-> DateOfDay(DayNumber(Today) + i),
           location |-> location,
           name     |-> kept[k].court,
           start    |-> kept[k].start,
           end      |-> kept[k].end]]

\* the slots of an activity in the order lines 91-97 group them
PjFetched(src, activity) ==
    LET courts == SPORT_TYPES(activity)
        calls  == [k \in 1..(days_to_check * Len(courts)) |->
                     << courts[((k - 1) % Len(courts)) + 1], (k - 1) \div Len(courts) >>]
        some   == SelectSeq(calls, LAMBDA c :
                                fetch_slots(src, activity, c[1], c[2]) # <<>>)
    IN Flatten([k \in DOMAIN some |->
                   fetch_slots(src, activity, some[k][1], some[k][2])])

\* the availability a run sees
PjAvailable(src) ==
    UNION { Range(PjFetched(src, PjActivities[a])) \X {a} : a \in DOMAIN PjActivities }

\* "• {time_range} → {courts_str}" (lines 106-111): the courts as a sorted set
\* of their names
PjTimeLine(key, courts) ==
    LET names  == Distinct(courts)
        sorted == SortedValues([i \in DOMAIN names |->
                      << <<CourtTextRank(names[i])>>, names[i] >>])
        start_time == FormatTime([hour |-> key[1], minute |-> 0])
        end_time   == FormatTime([hour |-> key[2], minute |-> 0])
    IN Line("pj_time", << key[1], key[2] >> \o sorted, 0,
            2 + TimeLen(start_time) + 3 + TimeLen(end_time) + 3
              + SumSeq([i \in DOMAIN sorted |-> Digits(sorted[i])])
              + 2 * (Len(sorted) - 1),
            0)

\* the lines of one date of one location (lines 104-111)
PjDateLines(slots, date) ==
    LET mine == SelectSeq(slots, LAMBDA s : s.date = date)
        keys == Distinct([i \in DOMAIN mine |-> << mine[i].start, mine[i].end >>])
        courts(key) ==
            LET of == SelectSeq(mine, LAMBDA s : << s.start, s.end >> = key)
            IN [i \in DOMAIN of |-> of[i].name]
    IN << BlankLine, Line("pj_date", << date.d, date.m >>, 0, 12, 0) >>
       \o [i \in DOMAIN keys |-> PjTimeLine(keys[i], courts(keys[i]))]

\* the lines of one location (lines 102-113)
PjLocationLines(slots, location, n) ==
    LET mine  == SelectSeq(slots, LAMBDA s : s.location = location)
        dates == Distinct([i \in DOMAIN mine |-> mine[i].date])
    IN << BlankLine, Line("pj_location", << n >>, 0, 4 + PjNameLen(location), 0) >>
       \o Flatten([i \in DOMAIN dates |-> PjDateLines(mine, dates[i])])
       \o << Line("pj_rule", <<>>, 0, 20, 0), BlankLine >>

\* msg (lines 99-118), as the lines of the text
PjMessage(src, a) ==
    LET activity  == PjActivities[a]
        slots     == PjFetched(src, activity)
        locations == Distinct([i \in DOMAIN slots |-> slots[i].location])
    IN << Line("pj_header", << a >>, 0, 49 + PjNameLen(activity), 0) >>
       \o (IF slots # <<>>
           THEN Flatten([i \in DOMAIN locations |->
                            PjLocationLines(slots, locations[i], i)])
                \o << Line("pj_check", <<>>, 0, 44, 0) >>
           ELSE << Line("pj_none_check", <<>>, 0, 17 + 44, 0) >>)
       \o << BlankLine, Line("pj_next", <<>>, 0, 34, 0) >>

\* where line i of the text starts, and where it ends, its "\n" included
LineStart(text, i) == SumSeq([j \in 1..(i - 1) |-> LineLen(text[j]) + 1])
LineEnd(text, i) ==
    LineStart(text, i) + LineLen(text[i]) + (IF i < Len(text) THEN 1 ELSE 0)

Max(a, b) == IF a >= b THEN a ELSE b
Min(a, b) == IF a <= b THEN a ELSE b

\* text[i:i + max_length] (line 37): of every line it overlaps, the characters
\* from..to-1 of the line, the line's "\n" being its last character
PjChunk(text, k) ==
    LET a   == pj_max_length * (k - 1)
        b   == Min(pj_max_length * k, TextLen(text))
        idx == SelectSeq([i \in DOMAIN text |-> i],
                         LAMBDA i : Max(a, LineStart(text, i)) < Min(b, LineEnd(text, i)))
    IN [j \in DOMAIN idx |->
          [line |-> text[idx[j]],
           from |-> Max(a, LineStart(text, idx[j])) - LineStart(text, idx[j]),
           to   |-> Min(b, LineEnd(text, idx[j])) - LineStart(text, idx[j])]]

\* the payloads of pj send_telegram_message(text, thread_id) (lines 34-44):
\* none of them carries a "Part n" header (part = 0)
PjPayloads(text, thread_id) ==
    [k \in 1..((TextLen(text) + pj_max_length - 1) \div pj_max_length) |->
        [thread_id |-> thread_id, part |-> 0, frags |-> PjChunk(text, k)]]

\* len(chunk)
PjPayloadLen(payload) ==
    SumSeq([i \in DOMAIN payload.frags |-> payload.frags[i].to - payload.frags[i].from])

(***************************************************************************)
(* State                                                                   *)
(***************************************************************************)
VARIABLES
    source,              \* what the Slot Source lists now, per (location, day)
    hashFile,            \* HASH_FILE
    slotFile,            \* SLOT_FILE
    pc,                  \* where the program is
    all_location_slots,  \* run / process_and_notify
    previous_slots,      \* process_and_notify
    current_slots,
    new_slots,
    removed_slots,
    message,
    text,                \* send_telegram_message: its argument
    outbox,              \* payloads it has yet to post
    posted,              \* payloads it posted, with the sink's answer
    ranBefore,           \* a run has ended since the source last changed
    prevNotified,        \* ... and the sink accepted a payload of that run
    sameSource,          \* this run sees the source the run before it saw
    startHash,           \* HASH_FILE when this run began
    startSlots,          \* SLOT_FILE when this run began
    outcome,             \* how this run ended
    probe,               \* a label handed to the filter
    verdict,             \* the filter's answer
    probeLoc,            \* the location the label was listed at
    sessionFailed,       \* a page of this run redirected to the sign-in page
    pjSource,            \* pj: what the booking API lists now
    pjSeen,              \* pj: the availability the run before this one saw
    pjSame,              \* pj: this run sees the availability the run before saw
    pjpc,                \* pj: where the program is
    pjText,              \* pj send_telegram_message: its argument
    pjActivity,          \* pj: the activity run_all_sports is at (its index)
    pjOutbox,            \* pj: chunks it has yet to post
    pjPosted,            \* pj: chunks posted in this run
    dispatches,          \* runs that called send_telegram_message since the
                         \* source last changed
    second               \* a second process in process_and_notify

vars == << source, hashFile, slotFile, pc, all_location_slots, previous_slots,
           current_slots, new_slots, removed_slots, message, text, outbox,
           posted, ranBefore, prevNotified, sameSource, startHash, startSlots,
           outcome, probe, verdict, probeLoc, sessionFailed, pjSource, pjSeen,
           pjSame, pjpc, pjActivity, pjText, pjOutbox, pjPosted, dispatches,
           second >>

files   == << hashFile, slotFile >>
locals  == << all_location_slots, previous_slots, current_slots, new_slots,
              removed_slots, message >>
history == << ranBefore, prevNotified, sameSource, startHash, startSlots,
              sessionFailed, dispatches >>
filter  == << probe, verdict, probeLoc >>
pj      == << pjSource, pjSeen, pjSame, pjpc, pjActivity, pjText, pjOutbox,
              pjPosted >>
kl      == << source, files, pc, locals, text, outbox, posted, history, outcome,
              filter, second >>

\* the sink accepted at least one payload
Notified(log) == \E i \in DOMAIN log : log[i].status = "ok"

\* the sink accepted the whole notification
Delivered(log) == log # <<>> /\ \A i \in DOMAIN log : log[i].status = "ok"

\* the sink refused a payload, or a post raised
SinkFailed == outcome = "raised" \/ \E i \in DOMAIN posted : posted[i].status = "rejected"

\* no second process is in process_and_notify
SecondOff ==
    second = [pc |-> "off", all_location_slots |-> <<>>, previous_slots |-> {},
              current_slots |-> {}, message |-> <<>>, posted |-> <<>>]

\* the pj program is not running
PjOff ==
    /\ pjSource = <<>> /\ pjSeen = <<>> /\ pjSame = FALSE /\ pjpc = "off"
    /\ pjActivity = 0
    /\ pjText = <<>> /\ pjOutbox = <<>> /\ pjPosted = <<>>

(***************************************************************************)
(* Actions                                                                 *)
(***************************************************************************)
\* the site lists something else
SourceChanges(out) ==
    /\ pc = "idle"
    /\ out # source
    /\ source' = out
    /\ ranBefore' = FALSE
    /\ prevNotified' = FALSE
    /\ dispatches' = 0
    /\ UNCHANGED << files, pc, locals, text, outbox, posted, sameSource,
                    startHash, startSlots, sessionFailed, outcome, filter, pj, second >>

\* run() without the return of lines 439-441
StartRun_NoEmptyCheck ==
    /\ pc = "idle"
    /\ all_location_slots' = AllLocationSlots(source)
    /\ sameSource' = ranBefore
    /\ startHash' = hashFile
    /\ startSlots' = slotFile
    /\ sessionFailed' = FALSE
    /\ pc' = "pan" /\ outcome' = "running"
    /\ UNCHANGED << source, files, previous_slots, current_slots, new_slots,
                    removed_slots, message, text, outbox, posted, ranBefore,
                    prevNotified, dispatches, filter, pj, second >>

\* run(), lines 355-443, up to the call of process_and_notify
StartRun ==
    /\ pc = "idle"
    /\ all_location_slots' = AllLocationSlots(source)
    /\ sameSource' = ranBefore
    /\ startHash' = hashFile
    /\ startSlots' = slotFile
    /\ sessionFailed' = FALSE
    /\ IF all_location_slots' = <<>>
       THEN pc' = "done" /\ outcome' = "skipped"
       ELSE pc' = "pan" /\ outcome' = "running"
    /\ UNCHANGED << source, files, previous_slots, current_slots, new_slots,
                    removed_slots, message, text, outbox, posted, ranBefore,
                    prevNotified, dispatches, filter, pj, second >>

\* process_and_notify, lines 221-336: the diff and the message
\* json.load(f) at line 223 raises on an unparsable SLOT_FILE: nothing catches
\* it, neither here nor in run (line 443 is outside its try), and the process dies
Compose ==
    /\ pc = "pan"
    /\ IF slotFile = Unparsable
       THEN /\ pc' = "done"
            /\ outcome' = "crashed"
            /\ UNCHANGED << previous_slots, current_slots, new_slots, removed_slots,
                            message >>
       ELSE LET prev == IF slotFile = Missing THEN {} ELSE Range(Content(slotFile))
                cur  == CurrentSlots(all_location_slots)
            IN /\ previous_slots' = prev
               /\ current_slots' = cur
               /\ new_slots' = NewSlots(cur, prev)
               /\ removed_slots' = RemovedSlots(cur, prev)
               /\ message' = ComposeMessage(all_location_slots, NewSlots(cur, prev),
                                            RemovedSlots(cur, prev))
               /\ pc' = "decide"
               /\ UNCHANGED outcome
    /\ UNCHANGED << source, files, all_location_slots, text, outbox, posted,
                    history, filter, pj, second >>

\* the comparison left out: every composed message is sent
HashDiffers_Always(hash_file, message_hash) == TRUE

\* last_hash.get("hash") != message_hash (lines 338-344)
HashDiffers(hash_file, message_hash) ==
    hash_file = Missing \/ Content(hash_file).hash # message_hash

\* process_and_notify, lines 338-352: send, or log "no changes"; json.load(f)
\* at line 340 raises on an unparsable HASH_FILE
Decide ==
    /\ pc = "decide"
    /\ IF hashFile = Unparsable
       THEN /\ pc' = "done"
            /\ outcome' = "crashed"
            /\ UNCHANGED << text, outbox >>
       ELSE IF HashDiffers(hashFile, MessageHash(message))
       THEN /\ text' = message
            /\ outbox' = Payloads(message)
            /\ pc' = "send"
            /\ UNCHANGED outcome
       ELSE /\ pc' = "done"
            /\ outcome' = "nochange"
            /\ UNCHANGED << text, outbox >>
    /\ UNCHANGED << source, files, locals, posted, history, filter, pj, second >>

\* one requests.post of send_telegram_message: the sink answers 200 ("ok") or
\* an error status ("rejected", which the program only prints), or the post
\* raises and the exception leaves send_telegram_message and its callers
Post(status) ==
    /\ pc \in {"send", "send_direct"}
    /\ outbox # <<>>
    /\ IF status = "raised"
       THEN /\ outbox' = <<>>
            /\ pc' = IF pc = "send" THEN "done" ELSE "raised"
            /\ outcome' = IF pc = "send" THEN "raised" ELSE outcome
            /\ UNCHANGED posted
       ELSE /\ posted' = Append(posted, [payload |-> Head(outbox), status |-> status])
            /\ outbox' = Tail(outbox)
            /\ UNCHANGED << pc, outcome >>
    /\ UNCHANGED << source, files, locals, text, history, filter, pj, second >>

\* send_telegram_message returns
SendReturns ==
    /\ pc \in {"send", "send_direct"}
    /\ outbox = <<>>
    /\ pc' = IF pc = "send" THEN "write_hash" ELSE "returned"
    /\ UNCHANGED << source, files, locals, text, outbox, posted, history, outcome,
                    filter, pj, second >>

\* process_and_notify without the write of lines 347-348
WriteHash_Skips ==
    /\ pc = "write_hash"
    /\ pc' = "write_slots"
    /\ UNCHANGED << source, files, locals, text, outbox, posted, history,
                    outcome, filter, pj, second >>

\* lines 347-348
WriteHash ==
    /\ pc = "write_hash"
    /\ hashFile' = File([hash |-> MessageHash(message)])
    /\ pc' = "write_slots"
    /\ UNCHANGED << source, slotFile, locals, text, outbox, posted, history,
                    outcome, filter, pj, second >>

\* lines 349-350
WriteSlots ==
    /\ pc = "write_slots"
    /\ slotFile' = File(SortedKeys(current_slots))
    /\ pc' = "done"
    /\ outcome' = "committed"
    /\ UNCHANGED << source, hashFile, locals, text, outbox, posted, history, filter, pj, second >>

\* the process ends: nothing of it is left but the two files
Exit ==
    /\ pc = "done"
    /\ pc' = "idle"
    /\ ranBefore' = ~ sessionFailed
    /\ prevNotified' = Notified(posted)
    /\ dispatches' = IF text # <<>> THEN Min(dispatches + 1, MaxDispatches)
                                    ELSE dispatches
    /\ all_location_slots' = <<>>
    /\ previous_slots' = {} /\ current_slots' = {}
    /\ new_slots' = {} /\ removed_slots' = {}
    /\ message' = <<>> /\ text' = <<>> /\ outbox' = <<>> /\ posted' = <<>>
    /\ sameSource' = FALSE
    /\ startHash' = Missing /\ startSlots' = Missing
    /\ sessionFailed' = FALSE
    /\ outcome' = "none"
    /\ UNCHANGED << source, files, filter, pj, second >>

(***************************************************************************)
(* The pipeline: runs one after another against a source that may change   *)
(***************************************************************************)
Init ==
    /\ source \in SourceOutputs
    /\ hashFile = Missing
    /\ slotFile = Missing
    /\ pc = "idle"
    /\ all_location_slots = <<>>
    /\ previous_slots = {} /\ current_slots = {}
    /\ new_slots = {} /\ removed_slots = {}
    /\ message = <<>> /\ text = <<>> /\ outbox = <<>> /\ posted = <<>>
    /\ ranBefore = FALSE /\ prevNotified = FALSE /\ sameSource = FALSE
    /\ startHash = Missing /\ startSlots = Missing
    /\ outcome = "none"
    /\ probe = A_to
    /\ verdict = "none"
    /\ probeLoc = 10
    /\ sessionFailed = FALSE
    /\ dispatches = 0
    /\ SecondOff
    /\ PjOff

Next ==
    \/ \E out \in SourceOutputs : SourceChanges(out)
    \/ StartRun
    \/ Compose
    \/ Decide
    \/ \E status \in {"ok", "rejected", "raised"} : Post(status)
    \/ SendReturns
    \/ WriteHash
    \/ WriteSlots
    \/ Exit

Spec == Init /\ [][Next]_vars

(***************************************************************************)
(* The pipeline with its faults: the session lost, the process cancelled   *)
(***************************************************************************)
\* the pages in the order run visits them (lines 389-396)
VisitOrder ==
    LET cells == [k \in 1..(Len(LOCATIONS) * MAX_BOOKING_DAYS) |->
                    << LOCATIONS[((k - 1) \div MAX_BOOKING_DAYS) + 1],
                       (k - 1) % MAX_BOOKING_DAYS >>]
    IN SelectSeq(cells, LAMBDA c : c \in SourceCells)

\* what fetch_slots_for_date_and_location returns when the session expires
\* before page n is visited: from then on every page redirects to the sign-in
\* page and lists nothing (lines 169-172)
SeenSource(src, n) ==
    [c \in SourceCells |->
        IF \E k \in 1..(n - 1) : VisitOrder[k] = c THEN src[c] ELSE <<>>]

\* run(), lines 367-387: the facility page or the login page does not load,
\* or the login fails: run returns
LoginFails ==
    /\ pc = "idle"
    /\ sessionFailed' = TRUE
    /\ sameSource' = FALSE
    /\ startHash' = hashFile
    /\ startSlots' = slotFile
    /\ pc' = "done"
    /\ outcome' = "skipped"
    /\ UNCHANGED << source, files, locals, text, outbox, posted, ranBefore,
                    prevNotified, dispatches, filter, pj, second >>

\* run(), lines 355-443, with the session expiring before page n
StartRunExpired(n) ==
    /\ pc = "idle"
    /\ all_location_slots' = AllLocationSlots(SeenSource(source, n))
    /\ sameSource' = FALSE
    /\ startHash' = hashFile
    /\ startSlots' = slotFile
    /\ sessionFailed' = TRUE
    /\ IF all_location_slots' = <<>>
       THEN pc' = "done" /\ outcome' = "skipped"
       ELSE pc' = "pan" /\ outcome' = "running"
    /\ UNCHANGED << source, files, previous_slots, current_slots, new_slots,
                    removed_slots, message, text, outbox, posted, ranBefore,
                    prevNotified, dispatches, filter, pj, second >>

\* the process is cancelled inside process_and_notify
Cancel ==
    /\ pc \in {"pan", "decide", "send", "write_hash", "write_slots"}
    /\ pc' = "done"
    /\ outcome' = "cancelled"
    /\ outbox' = <<>>
    /\ UNCHANGED << source, files, locals, text, posted, history, filter, pj, second >>

NextFaults ==
    \/ Next
    \/ LoginFails
    \/ \E n \in 1..Len(VisitOrder) : StartRunExpired(n)
    \/ Cancel

SpecFaults == Init /\ [][NextFaults]_vars

(***************************************************************************)
(* process_and_notify called on its own: any input, any slot-key record    *)
(***************************************************************************)
ComposeLocs == {9, 10}

\* a slot that starts with A_to and ends later, at another court
C_dash == Label(2, Time(7, 0, TRUE), Time(9, 0, TRUE), "dash")

ComposeLabels == {A_to, C_dash}

\* all_location_slots as run builds it from the labels f lists per location:
\* locations in LOCATIONS order, those without slots left out
ComposeInput(f) ==
    LET locs == SelectSeq(LOCATIONS, LAMBDA l : l \in ComposeLocs /\ f[l] # <<>>)
    IN [k \in DOMAIN locs |->
          [loc  |-> locs[k],
           days |-> << [date |-> DisplayDate(locs[k], 0), slots |-> f[locs[k]]] >>]]

ComposeInputs ==
    { ComposeInput(f) : f \in [ComposeLocs -> SeqsUpTo(ComposeLabels, MaxComposeSlots)] }
    \ { <<>> }

ComposeKeys ==
    { SlotKey(l, DisplayDate(l, 0), lab) : l \in ComposeLocs, lab \in ComposeLabels }

\* SLOT_FILE as an earlier run left it
ComposeSlotFiles ==
    {Missing} \cup { File(SortedKeys(S)) : S \in (SUBSET ComposeKeys) \ {{}} }

NoSource == [c \in SourceCells |-> <<>>]

InitCompose ==
    /\ source = NoSource
    /\ hashFile = Missing
    /\ slotFile \in ComposeSlotFiles
    /\ pc = "pan"
    /\ all_location_slots \in ComposeInputs
    /\ previous_slots = {} /\ current_slots = {}
    /\ new_slots = {} /\ removed_slots = {}
    /\ message = <<>> /\ text = <<>> /\ outbox = <<>> /\ posted = <<>>
    /\ ranBefore = FALSE /\ prevNotified = FALSE /\ sameSource = FALSE
    /\ startHash = hashFile /\ startSlots = slotFile
    /\ outcome = "running"
    /\ probe = A_to
    /\ verdict = "none"
    /\ probeLoc = 10
    /\ sessionFailed = FALSE
    /\ dispatches = 0
    /\ SecondOff
    /\ PjOff

NextCompose ==
    \/ Compose
    \/ Decide
    \/ \E status \in {"ok", "rejected", "raised"} : Post(status)
    \/ SendReturns
    \/ WriteHash
    \/ WriteSlots

SpecCompose == InitCompose /\ [][NextCompose]_vars

(***************************************************************************)
(* process_and_notify called on its own: the two files missing, unparsable *)
(* or as an earlier run left them                                          *)
(***************************************************************************)
LoadSlotFiles ==
    { Missing, Unparsable,
      File(SortedKeys({SlotKey(10, DisplayDate(10, 0), A_to)})) }

LoadHashFiles ==
    { Missing, Unparsable, File([hash |-> MessageHash(<< BlankLine >>)]) }

InitLoad ==
    /\ source = NoSource
    /\ hashFile \in LoadHashFiles
    /\ slotFile \in LoadSlotFiles
    /\ pc = "pan"
    /\ all_location_slots \in ComposeInputs
    /\ previous_slots = {} /\ current_slots = {}
    /\ new_slots = {} /\ removed_slots = {}
    /\ message = <<>> /\ text = <<>> /\ outbox = <<>> /\ posted = <<>>
    /\ ranBefore = FALSE /\ prevNotified = FALSE /\ sameSource = FALSE
    /\ startHash = hashFile /\ startSlots = slotFile
    /\ outcome = "running"
    /\ probe = A_to
    /\ verdict = "none"
    /\ probeLoc = 10
    /\ sessionFailed = FALSE
    /\ dispatches = 0
    /\ SecondOff
    /\ PjOff

SpecLoad == InitLoad /\ [][NextCompose]_vars

(***************************************************************************)
(* process_and_notify called on its own: the layout of the message         *)
(***************************************************************************)
\* court 2 at the time of A_to, and a label without a court number
A2_to == Label(2, Time(7, 0, TRUE), Time(8, 0, TRUE), "to")
N_to  == Label(NoCourt, Time(7, 0, TRUE), Time(8, 0, TRUE), "to")

\* the (location, day) listed, and the labels each can list
RenderCells == << <<9, 0>>, <<9, 1>>, <<10, 0>> >>

RenderLabels(cell) ==
    IF cell = <<9, 0>> THEN {B_to, A_to}
    ELSE IF cell = <<9, 1>> THEN {A_to}
    ELSE {A_to, A2_to, N_to}

\* all_location_slots as run builds it from the labels f lists per cell
RenderInput(f) ==
    LET days(l) ==
            LET mine == SelectSeq(RenderCells, LAMBDA c : c[1] = l /\ f[c] # <<>>)
            IN [k \in DOMAIN mine |->
                  [date |-> DisplayDate(l, mine[k][2]), slots |-> f[mine[k]]]]
        locs == SelectSeq(LOCATIONS, LAMBDA l : days(l) # <<>>)
    IN [k \in DOMAIN locs |-> [loc |-> locs[k], days |-> days(locs[k])]]

RenderInputs ==
    { RenderInput(f) :
        f \in { g \in [Range(RenderCells) ->
                         SeqsUpTo({B_to, A_to, A2_to, N_to}, MaxRenderSlots)] :
                  \A c \in Range(RenderCells) : Range(g[c]) \subseteq RenderLabels(c) } }
    \ { <<>> }

\* keys of slots of location 7 that an earlier run listed
StaleKeys(n) == { SlotKey(7, Date(31 - k, 1), A_to) : k \in 1..n }

RenderSlotFiles ==
    { IF StaleKeys(n) \cup S = {} THEN Missing
      ELSE File(SortedKeys(StaleKeys(n) \cup S)) :
        n \in 0..MaxRemoved,
        S \in { {}, {SlotKey(10, DisplayDate(10, 0), A_to)} } }

InitRender ==
    /\ source = NoSource
    /\ hashFile = Missing
    /\ slotFile \in RenderSlotFiles
    /\ pc = "pan"
    /\ all_location_slots \in RenderInputs
    /\ previous_slots = {} /\ current_slots = {}
    /\ new_slots = {} /\ removed_slots = {}
    /\ message = <<>> /\ text = <<>> /\ outbox = <<>> /\ posted = <<>>
    /\ ranBefore = FALSE /\ prevNotified = FALSE /\ sameSource = FALSE
    /\ startHash = hashFile /\ startSlots = slotFile
    /\ outcome = "running"
    /\ probe = A_to
    /\ verdict = "none"
    /\ probeLoc = 10
    /\ sessionFailed = FALSE
    /\ dispatches = 0
    /\ SecondOff
    /\ PjOff

NextRender ==
    \/ Compose
    \/ Decide

SpecRender == InitRender /\ [][NextRender]_vars

(***************************************************************************)
(* send_telegram_message called on its own: any text                       *)
(***************************************************************************)
\* the widths <<lead, core, trail>> a line of the text can have
LineShapes ==
    { <<0, 0, 0>>, <<2, 0, 0>>, <<0, 10, 0>>, <<1, 10, 1>>,
      <<0, 2000, 0>>, <<0, 3999, 0>>, <<0, 4001, 0>> }

\* text.split('\n'): line i of the text is told from the others by p = <<i>>
SendText(shapes) ==
    [i \in DOMAIN shapes |-> Line("raw", <<i>>, shapes[i][1], shapes[i][2], shapes[i][3])]

SendTexts == { SendText(sh) : sh \in SeqsUpTo(LineShapes, MaxLines) \ { <<>> } }

\* send_telegram_message(text), lines 55-75: the call
CallSend ==
    /\ pc = "send_call"
    /\ outbox' = Payloads(text)
    /\ pc' = "send_direct"
    /\ UNCHANGED << source, files, locals, text, posted, history, outcome, filter, pj, second >>

InitSend ==
    /\ source = NoSource
    /\ hashFile = Missing
    /\ slotFile = Missing
    /\ pc = "send_call"
    /\ all_location_slots = <<>>
    /\ previous_slots = {} /\ current_slots = {}
    /\ new_slots = {} /\ removed_slots = {}
    /\ message = <<>> /\ text \in SendTexts /\ outbox = <<>> /\ posted = <<>>
    /\ ranBefore = FALSE /\ prevNotified = FALSE /\ sameSource = FALSE
    /\ startHash = Missing /\ startSlots = Missing
    /\ outcome = "none"
    /\ probe = A_to
    /\ verdict = "none"
    /\ probeLoc = 10
    /\ sessionFailed = FALSE
    /\ dispatches = 0
    /\ SecondOff
    /\ PjOff

NextSend ==
    \/ CallSend
    \/ \E status \in {"ok", "rejected", "raised"} : Post(status)
    \/ SendReturns

SpecSend == InitSend /\ [][NextSend]_vars

(***************************************************************************)
(* The filter called on its own: any label                                 *)
(***************************************************************************)
FilterLabels ==
    { Label(1, Time(h, m, pm), Time(11, 30, TRUE), sep) :
        h \in 1..12, m \in {0, 59}, pm \in BOOLEAN, sep \in Seps }

\* is_slot_after_4pm(probe), as run calls it at line 412
ApplyFilter ==
    /\ pc = "filter_call"
    /\ verdict' = IF is_slot_after_4pm(probe) THEN "pass" ELSE "drop"
    /\ pc' = "filtered"
    /\ UNCHANGED << source, files, locals, text, outbox, posted, history, outcome,
                    probe, probeLoc, pj, second >>

InitFilter ==
    /\ source = NoSource
    /\ hashFile = Missing
    /\ slotFile = Missing
    /\ pc = "filter_call"
    /\ all_location_slots = <<>>
    /\ previous_slots = {} /\ current_slots = {}
    /\ new_slots = {} /\ removed_slots = {}
    /\ message = <<>> /\ text = <<>> /\ outbox = <<>> /\ posted = <<>>
    /\ ranBefore = FALSE /\ prevNotified = FALSE /\ sameSource = FALSE
    /\ startHash = Missing /\ startSlots = Missing
    /\ outcome = "none"
    /\ probe \in FilterLabels
    /\ verdict = "none"
    /\ probeLoc = 10
    /\ sessionFailed = FALSE
    /\ dispatches = 0
    /\ SecondOff
    /\ PjOff

NextFilter == ApplyFilter

SpecFilter == InitFilter /\ [][NextFilter]_vars

(***************************************************************************)
(* The filter loop of run, for one slot of one location                    *)
(***************************************************************************)
CourtLabels ==
    { Label(c, Time(h, 0, TRUE), Time(11, 30, TRUE), sep) :
        c \in {NoCourt, 1, 5, 6, 7}, h \in {6, 7}, sep \in Seps }

\* the body of the loop at lines 410-425 for the slot probe of location
\* probeLoc: dropped by the time filter, ignored by the court filter, or kept
FilterSlot ==
    /\ pc = "slot_call"
    /\ LET court_num == extract_court_number(probe)
       IN verdict' =
            IF ~ is_slot_after_4pm(probe) THEN "drop"
            ELSE IF court_num # NoCourt /\ should_ignore_court(probeLoc, court_num)
                 THEN "ignored"
                 ELSE "pass"
    /\ pc' = "slot_done"
    /\ UNCHANGED << source, files, locals, text, outbox, posted, history, outcome,
                    probe, probeLoc, pj, second >>

InitCourt ==
    /\ source = NoSource
    /\ hashFile = Missing
    /\ slotFile = Missing
    /\ pc = "slot_call"
    /\ all_location_slots = <<>>
    /\ previous_slots = {} /\ current_slots = {}
    /\ new_slots = {} /\ removed_slots = {}
    /\ message = <<>> /\ text = <<>> /\ outbox = <<>> /\ posted = <<>>
    /\ ranBefore = FALSE /\ prevNotified = FALSE /\ sameSource = FALSE
    /\ startHash = Missing /\ startSlots = Missing
    /\ outcome = "none"
    /\ probe \in CourtLabels
    /\ verdict = "none"
    /\ probeLoc \in Range(LOCATIONS)
    /\ sessionFailed = FALSE
    /\ dispatches = 0
    /\ SecondOff
    /\ PjOff

NextCourt == FilterSlot

SpecCourt == InitCourt /\ [][NextCourt]_vars

(***************************************************************************)
(* pj-court-booking.py: run_all_sports, run after run                      *)
(***************************************************************************)
\* the API lists something else
PjSourceChanges(out) ==
    /\ pjpc = "idle"
    /\ out # pjSource
    /\ pjSource' = out
    /\ UNCHANGED << kl, pjSeen, pjSame, pjpc, pjActivity, pjText, pjOutbox, pjPosted >>

\* run_all_sports is called (line 122, or by the schedule of lines 125-133)
PjStart ==
    /\ pjpc = "idle"
    /\ pjSame' = (pjSeen = << PjAvailable(pjSource) >>)
    /\ pjActivity' = 1
    /\ pjpc' = "compose"
    /\ UNCHANGED << kl, pjSource, pjSeen, pjText, pjOutbox, pjPosted >>

\* lines 83-119 for one activity, up to the call of send_telegram_message:
\* whatever was fetched, the message is sent
PjCompose ==
    /\ pjpc = "compose"
    /\ pjText' = PjMessage(pjSource, pjActivity)
    /\ pjOutbox' = PjPayloads(PjMessage(pjSource, pjActivity),
                              ACTIVITY_THREAD_IDS(PjActivities[pjActivity]))
    /\ pjpc' = "send"
    /\ UNCHANGED << kl, pjSource, pjSeen, pjSame, pjActivity, pjPosted >>

\* one requests.post of line 44: the answer is not looked at; an exception
\* leaves send_telegram_message and run_all_sports
PjPost(status) ==
    /\ pjpc \in {"send", "send_direct"}
    /\ pjOutbox # <<>>
    /\ IF status = "raised"
       THEN /\ pjOutbox' = <<>>
            /\ pjpc' = IF pjpc = "send" THEN "crashed" ELSE "raised"
            /\ UNCHANGED pjPosted
       ELSE /\ pjPosted' = Append(pjPosted, Head(pjOutbox))
            /\ pjOutbox' = Tail(pjOutbox)
            /\ UNCHANGED pjpc
    /\ UNCHANGED << kl, pjSource, pjSeen, pjSame, pjActivity, pjText >>

\* send_telegram_message returns: the next activity, or the end of the run
PjSendReturns ==
    /\ pjpc \in {"send", "send_direct"}
    /\ pjOutbox = <<>>
    /\ IF pjpc = "send_direct"
       THEN pjpc' = "returned" /\ UNCHANGED pjActivity
       ELSE IF pjActivity < Len(PjActivities)
            THEN pjpc' = "compose" /\ pjActivity' = pjActivity + 1
            ELSE pjpc' = "done" /\ UNCHANGED pjActivity
    /\ UNCHANGED << kl, pjSource, pjSeen, pjSame, pjText, pjOutbox, pjPosted >>

\* run_all_sports has ended; the program keeps nothing of it
PjExit ==
    /\ pjpc \in {"done", "crashed"}
    /\ pjSeen' = IF pjpc = "done" THEN << PjAvailable(pjSource) >> ELSE <<>>
    /\ pjpc' = "idle"
    /\ pjSame' = FALSE
    /\ pjActivity' = 0
    /\ pjText' = <<>> /\ pjOutbox' = <<>> /\ pjPosted' = <<>>
    /\ UNCHANGED << kl, pjSource >>

\* the kl program is not running
KlOff ==
    /\ source = NoSource
    /\ hashFile = Missing /\ slotFile = Missing
    /\ pc = "off"
    /\ all_location_slots = <<>>
    /\ previous_slots = {} /\ current_slots = {}
    /\ new_slots = {} /\ removed_slots = {}
    /\ message = <<>> /\ text = <<>> /\ outbox = <<>> /\ posted = <<>>
    /\ ranBefore = FALSE /\ prevNotified = FALSE /\ sameSource = FALSE
    /\ startHash = Missing /\ startSlots = Missing
    /\ sessionFailed = FALSE
    /\ dispatches = 0
    /\ SecondOff
    /\ outcome = "none"
    /\ probe = A_to /\ verdict = "none" /\ probeLoc = 10

InitPj ==
    /\ KlOff
    /\ pjSource \in PjSourceOutputs
    /\ pjSeen = <<>>
    /\ pjSame = FALSE
    /\ pjpc = "idle"
    /\ pjActivity = 0
    /\ pjText = <<>> /\ pjOutbox = <<>> /\ pjPosted = <<>>

NextPj ==
    \/ \E out \in PjSourceOutputs : PjSourceChanges(out)
    \/ PjStart
    \/ PjCompose
    \/ \E status \in {"ok", "raised"} : PjPost(status)
    \/ PjSendReturns
    \/ PjExit

SpecPj == InitPj /\ [][NextPj]_vars

(***************************************************************************)
(* The two send_telegram_message of the repository, each called with the   *)
(* same text                                                               *)
(***************************************************************************)
\* pj send_telegram_message(text, thread_id): the call
PjCallSend ==
    /\ pjpc = "send_call"
    /\ pjOutbox' = PjPayloads(pjText, ACTIVITY_THREAD_IDS("Tennis"))
    /\ pjpc' = "send_direct"
    /\ UNCHANGED << kl, pjSource, pjSeen, pjSame, pjActivity, pjText, pjPosted >>

InitSends ==
    /\ source = NoSource
    /\ hashFile = Missing
    /\ slotFile = Missing
    /\ pc = "send_call"
    /\ all_location_slots = <<>>
    /\ previous_slots = {} /\ current_slots = {}
    /\ new_slots = {} /\ removed_slots = {}
    /\ message = <<>> /\ text \in SendTexts /\ outbox = <<>> /\ posted = <<>>
    /\ ranBefore = FALSE /\ prevNotified = FALSE /\ sameSource = FALSE
    /\ startHash = Missing /\ startSlots = Missing
    /\ outcome = "none"
    /\ probe = A_to
    /\ verdict = "none"
    /\ probeLoc = 10
    /\ sessionFailed = FALSE
    /\ dispatches = 0
    /\ SecondOff
    /\ pjSource = <<>> /\ pjSeen = <<>> /\ pjSame = FALSE
    /\ pjpc = "send_call"
    /\ pjActivity = 0
    /\ pjText = text /\ pjOutbox = <<>> /\ pjPosted = <<>>

NextSends ==
    \/ CallSend
    \/ \E status \in {"ok", "rejected", "raised"} : Post(status)
    \/ SendReturns
    \/ PjCallSend
    \/ \E status \in {"ok", "raised"} : PjPost(status)
    \/ PjSendReturns

SpecSends == InitSends /\ [][NextSends]_vars

(***************************************************************************)
(* Runs one after another against a source that never changes, from        *)
(* whatever an earlier process left in the two files; every post is        *)
(* accepted                                                                *)
(***************************************************************************)
\* SLOT_FILE: missing, unparsable, an empty list, or keys of slots the source
\* lists and of one it no longer lists
QuietSlotFiles(src) ==
    {Missing, Unparsable}
    \cup { File(SortedKeys(S)) :
             S \in SUBSET (CurrentSlots(AllLocationSlots(src)) \cup StaleKeys(1)) }

\* HASH_FILE: missing, unparsable, the hash of another text, or the hash of a
\* text composed for this source against one of those slot files
QuietHashFiles(src) ==
    {Missing, Unparsable, File([hash |-> MessageHash(<< BlankLine >>)])}
    \cup { File([hash |-> MessageHash(
                   ComposeMessage(AllLocationSlots(src),
                                  NewSlots(CurrentSlots(AllLocationSlots(src)), prev),
                                  RemovedSlots(CurrentSlots(AllLocationSlots(src)), prev)))]) :
             prev \in SUBSET (CurrentSlots(AllLocationSlots(src)) \cup StaleKeys(1)) }

InitQuiet ==
    /\ source \in { src \in SourceOutputs : AllLocationSlots(src) # <<>> }
    /\ hashFile \in QuietHashFiles(source)
    /\ slotFile \in QuietSlotFiles(source)
    /\ pc = "idle"
    /\ all_location_slots = <<>>
    /\ previous_slots = {} /\ current_slots = {}
    /\ new_slots = {} /\ removed_slots = {}
    /\ message = <<>> /\ text = <<>> /\ outbox = <<>> /\ posted = <<>>
    /\ ranBefore = FALSE /\ prevNotified = FALSE /\ sameSource = FALSE
    /\ startHash = Missing /\ startSlots = Missing
    /\ outcome = "none"
    /\ probe = A_to
    /\ verdict = "none"
    /\ probeLoc = 10
    /\ sessionFailed = FALSE
    /\ dispatches = 0
    /\ SecondOff
    /\ PjOff

NextQuiet ==
    \/ StartRun
    \/ Compose
    \/ Decide
    \/ Post("ok")
    \/ SendReturns
    \/ WriteHash
    \/ WriteSlots
    \/ Exit

SpecQuiet == InitQuiet /\ [][NextQuiet]_vars

(***************************************************************************)
(* Two processes in process_and_notify at once, each with the slots its own *)
(* run fetched, over the same HASH_FILE and SLOT_FILE                       *)
(***************************************************************************)
MaxRaceSlots == 2

\* what a run hands to process_and_notify: slots of one date of location 10
RaceInputs ==
    { << [loc  |-> 10,
          days |-> << [date |-> DisplayDate(10, 0), slots |-> s] >>] >> :
        s \in SeqsUpTo({A_to, A2_to}, MaxRaceSlots) \ { <<>> } }

\* SLOT_FILE as an earlier run left it
RaceSlotFiles ==
    { Missing, File(SortedKeys({SlotKey(10, DisplayDate(10, 0), A_to)})),
      File(SortedKeys(StaleKeys(1))) }

\* lines 221-336 in the second process
SecondCompose ==
    /\ second.pc = "pan"
    /\ IF slotFile = Unparsable
       THEN second' = [second EXCEPT !.pc = "done"]
       ELSE LET prev == IF slotFile = Missing THEN {} ELSE Range(Content(slotFile))
                cur  == CurrentSlots(second.all_location_slots)
            IN second' = [second EXCEPT
                            !.previous_slots = prev,
                            !.current_slots = cur,
                            !.message = ComposeMessage(second.all_location_slots,
                                                       NewSlots(cur, prev),
                                                       RemovedSlots(cur, prev)),
                            !.pc = "decide"]
    /\ UNCHANGED << source, files, pc, locals, text, outbox, posted, history,
                    outcome, filter, pj >>

\* lines 338-344 in the second process
SecondDecide ==
    /\ second.pc = "decide"
    /\ second' = [second EXCEPT
                    !.pc = IF hashFile = Unparsable THEN "done"
                           ELSE IF HashDiffers(hashFile, MessageHash(second.message))
                                THEN "send" ELSE "done"]
    /\ UNCHANGED << source, files, pc, locals, text, outbox, posted, history,
                    outcome, filter, pj >>

\* line 345 in the second process: send_telegram_message posts its payloads
SecondSend ==
    /\ second.pc = "send"
    /\ second' = [second EXCEPT !.posted = Payloads(second.message),
                                !.pc = "write_hash"]
    /\ UNCHANGED << source, files, pc, locals, text, outbox, posted, history,
                    outcome, filter, pj >>

\* the second process writing only once the first has written both files
SecondWriteHash_Locked ==
    /\ pc \notin {"write_hash", "write_slots"}
    /\ second.pc = "write_hash"
    /\ hashFile' = File([hash |-> MessageHash(second.message)])
    /\ second' = [second EXCEPT !.pc = "write_slots"]
    /\ UNCHANGED << source, slotFile, pc, locals, text, outbox, posted, history,
                    outcome, filter, pj >>

\* lines 347-348 in the second process
SecondWriteHash ==
    /\ second.pc = "write_hash"
    /\ hashFile' = File([hash |-> MessageHash(second.message)])
    /\ second' = [second EXCEPT !.pc = "write_slots"]
    /\ UNCHANGED << source, slotFile, pc, locals, text, outbox, posted, history,
                    outcome, filter, pj >>

\* lines 349-350 in the second process
SecondWriteSlots ==
    /\ second.pc = "write_slots"
    /\ slotFile' = File(SortedKeys(second.current_slots))
    /\ second' = [second EXCEPT !.pc = "done"]
    /\ UNCHANGED << source, hashFile, pc, locals, text, outbox, posted, history,
                    outcome, filter, pj >>

InitRace ==
    /\ source = NoSource
    /\ hashFile = Missing
    /\ slotFile \in RaceSlotFiles
    /\ pc = "pan"
    /\ all_location_slots \in RaceInputs
    /\ previous_slots = {} /\ current_slots = {}
    /\ new_slots = {} /\ removed_slots = {}
    /\ message = <<>> /\ text = <<>> /\ outbox = <<>> /\ posted = <<>>
    /\ ranBefore = FALSE /\ prevNotified = FALSE /\ sameSource = FALSE
    /\ startHash = hashFile /\ startSlots = slotFile
    /\ outcome = "running"
    /\ probe = A_to
    /\ verdict = "none"
    /\ probeLoc = 10
    /\ sessionFailed = FALSE
    /\ dispatches = 0
    /\ \E input \in RaceInputs :
          second = [pc |-> "pan", all_location_slots |-> input, previous_slots |-> {},
                    current_slots |-> {}, message |-> <<>>, posted |-> <<>>]
    /\ PjOff

NextRace ==
    \/ Compose
    \/ Decide
    \/ \E status \in {"ok", "rejected"} : Post(status)
    \/ SendReturns
    \/ WriteHash
    \/ WriteSlots
    \/ SecondCompose
    \/ SecondDecide
    \/ SecondSend
    \/ SecondWriteHash
    \/ SecondWriteSlots

SpecRace == InitRace /\ [][NextRace]_vars

(***************************************************************************)
(* Properties                                                              *)
(***************************************************************************)
StartFiles == hashFile = startHash /\ slotFile = startSlots

\* process_and_notify has composed its message in this run
Composed ==
    pc \in {"decide", "send", "write_hash", "write_slots", "done"} /\ outcome # "skipped"

\* ... and has compared its hash with HASH_FILE
Decided ==
    pc \in {"send", "write_hash", "write_slots", "done"} /\ outcome # "skipped"

\* C1: two consecutive runs that see the same Slot Source output send, together,
\* at most one notification: when the run before this one notified and the
\* source has not changed since, this run notifies nobody.
C1_TwoRunsOneNotification ==
    (sameSource /\ prevNotified) => ~Notified(posted)

\* C2: a send the sink refuses (an error status) or that raises commits
\* nothing: once a post of this run has failed, HASH_FILE and SLOT_FILE stay as
\* they were when the run began.
C2_FailedSendDoesNotCommit ==
    SinkFailed => StartFiles

\* C3: the commit is gated by the dispatch: a run that ends having dispatched
\* its notification (the sink took it) leaves its current_keys in SLOT_FILE and
\* the hash of its message in HASH_FILE, and a run that ends without one leaves
\* both files as it found them.
C3_DispatchGatedCommit ==
    pc = "done" =>
        IF Delivered(posted)
        THEN /\ slotFile # Missing
             /\ Range(Content(slotFile)) = current_slots
             /\ hashFile = File([hash |-> MessageHash(message)])
        ELSE StartFiles

\* C4: when the slot keys of SLOT_FILE are exactly the current ones (nothing
\* new, nothing removed), process_and_notify sends nothing and leaves the files
\* as they were.
C4_EqualStateNoDispatch ==
    (Composed /\ previous_slots = current_slots) =>
        (text = <<>> /\ posted = <<>> /\ StartFiles)

\* C5: when the hash of the composed message equals the hash in HASH_FILE,
\* process_and_notify sends nothing and leaves both files as they were, whatever
\* the slot keys are.
C5_HashEqualNoOp ==
    (Decided /\ startHash # Missing
             /\ Content(startHash).hash = MessageHash(message)) =>
        (outcome = "nochange" /\ text = <<>> /\ posted = <<>> /\ StartFiles)

\* a run that ended on equal hashes although its slot keys differ from SLOT_FILE's
C5_Witness ==
    /\ pc = "done" /\ outcome = "nochange"
    /\ startHash # Missing /\ Content(startHash).hash = MessageHash(message)
    /\ current_slots # previous_slots

\* the same slots per (location, date), as sets
SameSlotSets(a, b) ==
    /\ Len(a) = Len(b)
    /\ \A i \in DOMAIN a :
          /\ a[i].loc = b[i].loc
          /\ Len(a[i].days) = Len(b[i].days)
          /\ \A j \in DOMAIN a[i].days :
                /\ a[i].days[j].date = b[i].days[j].date
                /\ Range(a[i].days[j].slots) = Range(b[i].days[j].slots)

\* C6: the composer is deterministic in the slot sets: any input with the same
\* slots per (location, date), in whatever order the source listed them,
\* composed against the same previous slot keys, gives the text (hence the
\* hash) this run composed.
C6_ComposeBySetsDeterministic ==
    pc = "decide" =>
        \A other \in ComposeInputs :
            SameSlotSets(other, all_location_slots) =>
                ComposeMessage(other,
                               NewSlots(CurrentSlots(other), previous_slots),
                               RemovedSlots(CurrentSlots(other), previous_slots))
                  = message

\* the slots the input lists, one listed twice for a (location, date) counted once
ListedOnce(input) ==
    SumSeq(Flatten([i \in DOMAIN input |->
        [j \in DOMAIN input[i].days |->
            Cardinality(Range(input[i].days[j].slots))]]))

\* C7: the diff: current_keys = (previous_keys - removed) + new, new and
\* removed are disjoint, and a slot listed twice in a run has one key.
C7_DiffAlgebra ==
    Composed =>
        /\ current_slots = (previous_slots \ removed_slots) \cup new_slots
        /\ new_slots \cap removed_slots = {}
        /\ Cardinality(current_slots) = ListedOnce(all_location_slots)

\* a diff with new, removed and kept keys, of an input that lists a slot twice
C7_Witness ==
    /\ Composed
    /\ new_slots # {} /\ removed_slots # {}
    /\ previous_slots \cap current_slots # {}
    /\ Cardinality(current_slots) < TotalSlots(all_location_slots)

\* C8: of a text longer than the limit, every payload send_telegram_message
\* posts, its "Part N" header included, is at most MAX_MESSAGE_LENGTH long.
C8_ChunkWithinLimit ==
    TextLen(text) > MAX_MESSAGE_LENGTH =>
        \A i \in DOMAIN posted : PayloadLen(posted[i].payload) <= MAX_MESSAGE_LENGTH

\* the lines of the payloads posted, in the order posted, headers left out
Bodies == Flatten([i \in DOMAIN posted |-> posted[i].payload.lines])

\* what a line says
Said(lines) == [i \in DOMAIN lines |-> <<lines[i].kind, lines[i].p>>]

Inked(lines) ==
    LET inked == SelectSeq(lines, LAMBDA l : l.core > 0)
    IN [i \in DOMAIN inked |-> <<inked[i].kind, inked[i].p, inked[i].core>>]

\* s is the beginning of t
IsPrefix(s, t) == Len(s) <= Len(t) /\ s = SubSeq(t, 1, Len(s))

C10_WindowBoundary ==
    verdict # "none" =>
        /\ (verdict = "pass") = (probe.start.pm /\ probe.start.h \in 7..10)
        /\ probe.start = Time(7, 0, TRUE) => verdict = "pass"
        /\ probe.start = Time(11, 0, TRUE) => verdict = "drop"
        /\ probe.start = Time(6, 59, TRUE) => verdict = "drop"

\* the filter has passed a label that starts at 7:00 PM sharp
C10_Witness ==
    verdict = "pass" /\ probe.start = Time(7, 0, TRUE)

\* C11: the court filter excludes a slot of court n at location L exactly when
\* n is in the ignore list of L itself: court 5, ignored at location 10, is
\* kept at every other location, and a slot without a court number is never
\* excluded.
C11_IgnoreListIsolation ==
    (pc = "slot_done" /\ verdict # "drop") =>
        /\ (verdict = "ignored") =
              (probe.court # NoCourt /\ probe.court \in IGNORED_COURTS(probeLoc))
        /\ (probe.court = 5 /\ probeLoc = 10) => verdict = "ignored"
        /\ (probe.court = 5 /\ probeLoc # 10) => verdict = "pass"
        /\ probe.court = NoCourt => verdict = "pass"

\* court 5 kept at location 9
C11_Witness ==
    pc = "slot_done" /\ verdict = "pass" /\ probe.court = 5 /\ probeLoc = 9

\* the same slot: location, date, court number and time range
SameSlot(k1, k2) ==
    /\ k1[1] = k2[1] /\ k1[2] = k2[2]
    /\ extract_court_number(k1[3]) = extract_court_number(k2[3])
    /\ ParseTime(k1[3].start) = ParseTime(k2[3].start)
    /\ ParseTime(k1[3].end) = ParseTime(k2[3].end)

\* C12: slot keys are canonical: two labels of the same slot (location, date,
\* court number, time range) that differ in their separator only have the same
\* key, so a slot whose label changes its spelling between two runs is neither
\* new nor removed.
C12_SlotKeyCanonical ==
    Composed =>
        /\ \A k1 \in previous_slots \cup current_slots :
              \A k2 \in previous_slots \cup current_slots :
                 SameSlot(k1, k2) => k1 = k2
        /\ \A n \in new_slots : \A r \in removed_slots : ~ SameSlot(n, r)

\* C13: a SLOT_FILE or HASH_FILE that is missing or cannot be parsed counts as
\* an empty baseline: process_and_notify goes on with no previous keys (every
\* current slot is new) and with no last hash (the message is sent), and does
\* not fail.
C13_LoadFailureEmptyBaseline ==
    /\ (pc # "pan" /\ startSlots \in {Missing, Unparsable}) =>
          /\ outcome # "crashed"
          /\ previous_slots = {}
          /\ new_slots = current_slots
    /\ (pc \notin {"pan", "decide"} /\ startHash \in {Missing, Unparsable}) =>
          /\ outcome # "crashed"
          /\ text = message

\* C14: a session failure at any point of a run (the login at its start, or a
\* page that redirects to the sign-in page while slots are fetched) aborts the
\* run: it sends nothing and leaves HASH_FILE and SLOT_FILE as they were.
C14_SessionFailureAborts ==
    sessionFailed => (posted = <<>> /\ StartFiles)

\* C15: HASH_FILE and SLOT_FILE are rewritten as one: a run cancelled at any
\* point leaves both as they were when it began.
C15_AtomicCommit ==
    outcome = "cancelled" => StartFiles

\* C16: the pj pipeline notifies only when the availability changes: a run of
\* run_all_sports that sees the availability the run before it saw posts
\* nothing.
C16_PjNotifyOnlyOnChange ==
    pjSame => pjPosted = <<>>

\* a fragment that is a whole line, or only the "\n" that ends it
WholeLine(frag) ==
    \/ frag.from = 0 /\ frag.to >= LineLen(frag.line)
    \/ frag.from = LineLen(frag.line)

\* C20: both send_telegram_message split a text longer than the limit at line
\* boundaries only, post the chunks in the order of the text, and give every
\* chunk after the first one posted a "Part N" header, N one more per chunk.
C20_LineBoundaryChunking ==
    /\ TextLen(text) > MAX_MESSAGE_LENGTH =>
          /\ \A i \in DOMAIN Bodies :
                /\ text[Bodies[i].p[1]].core = Bodies[i].core
                /\ \A j \in DOMAIN Bodies : i < j => Bodies[i].p[1] < Bodies[j].p[1]
          /\ \A n \in DOMAIN posted :
                posted[n].payload.part = IF n = 1 THEN 0 ELSE n
    /\ TextLen(pjText) > pj_max_length =>
          /\ \A n \in DOMAIN pjPosted :
                \A i \in DOMAIN pjPosted[n].frags : WholeLine(pjPosted[n].frags[i])
          /\ \A n \in DOMAIN pjPosted :
                pjPosted[n].part = IF n = 1 THEN 0 ELSE n

\* the lines of the message of one kind
LinesOf(kind) == SelectSeq(message, LAMBDA l : l.kind = kind)

\* the removed line shows the key: the location, the day and month, the court
\* and the time range
ShowsKey(line, key) ==
    /\ line.p[1] = key[1] /\ line.p[2] = key[2].d /\ line.p[3] = key[2].m
    /\ line.p[4] = key[3].court
    /\ << line.p[5], line.p[6], line.p[7] >>
         = << key[3].start.h, key[3].start.m, Bit(key[3].start.pm) >>
    /\ << line.p[9], line.p[10], line.p[11] >>
         = << key[3].end.h, key[3].end.m, Bit(key[3].end.pm) >>

\* C17: the removed section is in the message only when 1 to 5 keys were
\* removed: with more than 5 (or none) the message has no removed line and no
\* "Removed:" header; with 1 to 5 it has the header once and one line per
\* removed key, in the sorted order of the keys.
C17_RemovedSection ==
    Composed =>
        IF Cardinality(removed_slots) \in 1..5
        THEN /\ Len(LinesOf("removed_header")) = 1
             /\ Len(LinesOf("removed")) = Cardinality(removed_slots)
             /\ \A key \in removed_slots :
                   Cardinality({ i \in DOMAIN LinesOf("removed") :
                                   ShowsKey(LinesOf("removed")[i], key) }) = 1
             /\ \A i \in DOMAIN LinesOf("removed") :
                   \A j \in DOMAIN LinesOf("removed") :
                      i < j =>
                        \E ki \in removed_slots : \E kj \in removed_slots :
                           /\ ShowsKey(LinesOf("removed")[i], ki)
                           /\ ShowsKey(LinesOf("removed")[j], kj)
                           /\ TupleLess(KeyRank(ki), KeyRank(kj))
        ELSE /\ LinesOf("removed_header") = <<>>
             /\ LinesOf("removed") = <<>>

\* more than 5 keys removed
C17_Witness ==
    Composed /\ Cardinality(removed_slots) > 5 /\ new_slots # {}

\* the place of a location in LOCATIONS
LocIndex(id) == CHOOSE k \in DOMAIN LOCATIONS : LOCATIONS[k] = id

\* the start of a time line, in minutes of the day
StartMinutes(line) ==
    LET dt == ParseTime(Time(line.p[1], line.p[2], line.p[3] = 1))
    IN dt.hour * 60 + dt.minute

\* the court numbers a time line lists, in the order it lists them
CourtsShown(line) == [k \in 1..((Len(line.p) - 6) \div 2) |-> line.p[5 + 2 * k]]

\* the days of the input, all locations together
InputDays(input) == Flatten([i \in DOMAIN input |-> input[i].days])

\* C18: the order of the message: the locations in the order of LOCATIONS, the
\* dates of a location from the earliest to the latest, the time lines of a
\* date by ascending start time, the courts of a time line by ascending court
\* number, in whatever order the slots of a date were listed; every location
\* and every date of the input has its line.
C18_ComposerOrdering ==
    Composed =>
        /\ Len(LinesOf("location")) = Len(all_location_slots)
        /\ Len(LinesOf("date")) = Len(InputDays(all_location_slots))
        /\ \A i \in DOMAIN message : \A j \in DOMAIN message :
              (i < j /\ message[i].kind = "location" /\ message[j].kind = "location")
                => LocIndex(message[i].p[1]) < LocIndex(message[j].p[1])
        /\ \A i \in DOMAIN message : \A j \in DOMAIN message :
              ( /\ i < j /\ message[i].kind = "date" /\ message[j].kind = "date"
                /\ \A k \in (i + 1)..(j - 1) : message[k].kind # "location" )
                => DayNumber(Date(message[i].p[1], message[i].p[2]))
                     < DayNumber(Date(message[j].p[1], message[j].p[2]))
        /\ \A i \in 1..(Len(message) - 1) :
              (message[i].kind = "time" /\ message[i + 1].kind = "time")
                => StartMinutes(message[i]) <= StartMinutes(message[i + 1])
        /\ \A i \in DOMAIN message :
              message[i].kind = "time" =>
                \A a \in DOMAIN CourtsShown(message[i]) :
                   \A b \in DOMAIN CourtsShown(message[i]) :
                      a < b => CourtsShown(message[i])[a] <= CourtsShown(message[i])[b]

\* an input with two locations, two dates at one of them, a date whose later
\* slot is listed first and a date whose higher court is listed first
C18_Witness ==
    /\ Composed
    /\ Len(all_location_slots) = 2
    /\ Len(all_location_slots[1].days) = 2
    /\ all_location_slots[1].days[1].slots = << B_to, A_to >>
    /\ all_location_slots[2].days[1].slots = << A2_to, A_to >>

\* the court entries of the time lines of the message, all together
CourtEntries ==
    SumSeq([i \in DOMAIN LinesOf("time") |-> Len(CourtsShown(LinesOf("time")[i]))])

C23_EmptyRunNoOp ==
    (pc # "idle" /\ all_location_slots = <<>>) =>
        /\ pc = "done" /\ outcome = "skipped"
        /\ message = <<>> /\ current_slots = {}
        /\ outbox = <<>> /\ posted = <<>>
        /\ StartFiles

\* an empty run that finds the slot keys of an earlier run in SLOT_FILE
C23_Witness ==
    /\ pc = "done" /\ outcome = "skipped"
    /\ all_location_slots = <<>>
    /\ slotFile \notin {Missing, Unparsable}
    /\ Content(slotFile) # <<>>
    /\ hashFile # Missing

\* this run called send_telegram_message
Dispatched == text # <<>>

\* C22: against a source that never changes (and lists a slot that passes the
\* filters), with every post accepted and whatever the two files held at the
\* start, at most two runs send; a run that follows a run that did not send
\* does not send either; and a run that does not send leaves HASH_FILE and
\* SLOT_FILE as it found them.
C22_Quiescence ==
    /\ dispatches + (IF Dispatched THEN 1 ELSE 0) <= 2
    /\ (pc # "idle" /\ ranBefore /\ ~prevNotified) => ~Dispatched
    /\ (pc # "idle" /\ ~Dispatched) => StartFiles
    /\ (pc # "idle" /\ dispatches = 2) => (~Dispatched /\ StartFiles)

\* a third run that finds nothing to send, after two runs that sent
C22_Witness ==
    /\ dispatches = 2
    /\ pc = "done" /\ outcome = "nochange"
    /\ StartFiles

\* both processes have left process_and_notify after writing the two files
BothCommitted == pc = "done" /\ outcome = "committed" /\ second.pc = "done"
                 /\ second.posted # <<>>

\* both processes read the SLOT_FILE that was there before either wrote
BothReadStale ==
    /\ previous_slots = second.previous_slots
    /\ previous_slots = (IF startSlots = Missing THEN {} ELSE Range(Content(startSlots)))

\* C21: nothing keeps two processes out of process_and_notify at once: once a
\* process has read SLOT_FILE, each of its steps (the comparison with
\* HASH_FILE, the send, the two writes) can be taken wherever the other
\* process is, and when both have written, HASH_FILE holds the hash of either
\* one's text and SLOT_FILE the keys of either one's slots, in any of the
\* four combinations.
C21_NothingProtects ==
    /\ pc = "decide" => ENABLED Decide
    /\ pc = "send" => ENABLED (Post("ok") \/ SendReturns)
    /\ pc = "write_hash" => ENABLED WriteHash
    /\ pc = "write_slots" => ENABLED WriteSlots
    /\ second.pc = "decide" => ENABLED SecondDecide
    /\ second.pc = "send" => ENABLED SecondSend
    /\ second.pc = "write_hash" => ENABLED SecondWriteHash
    /\ second.pc = "write_slots" => ENABLED SecondWriteSlots
    /\ BothCommitted =>
          /\ hashFile \in { File([hash |-> MessageHash(message)]),
                             File([hash |-> MessageHash(second.message)]) }
          /\ slotFile \in { File(SortedKeys(current_slots)),
                             File(SortedKeys(second.current_slots)) }

\* two processes that fetched different slots both read the SLOT_FILE of
\* before, both sent (the slot they both list announced as new by both), and
\* HASH_FILE is the second one's while SLOT_FILE is the first one's
C21_Witness ==
    /\ BothCommitted
    /\ BothReadStale
    /\ Notified(posted)
    /\ current_slots # second.current_slots
    /\ new_slots \cap NewSlots(second.current_slots, second.previous_slots) # {}
    /\ hashFile = File([hash |-> MessageHash(second.message)])
    /\ hashFile # File([hash |-> MessageHash(message)])
    /\ slotFile = File(SortedKeys(current_slots))

\* two processes that fetched the same slots both read the SLOT_FILE of
\* before, and the same text was accepted by the sink twice
SameTextSentTwice ==
    /\ BothCommitted
    /\ BothReadStale
    /\ new_slots # {}
    /\ message = second.message
    /\ Delivered(posted)
    /\ second.posted = Payloads(message)

====
